---- MODULE Spec2Model ----
(***************************************************************************)
(* A model of zato.server.service.store.ServiceStore (service discovery    *)
(* and deployment registry) and of the archive extraction it relies on,    *)
(* and of the reconnecting loop of zato.server.connection.BaseConnection.  *)
(*                                                                         *)
(* The specifications share the variables:                                 *)
(*   Spec      one server importing batches of items;                      *)
(*   SpecItems the same, over items of every shape, one of them a          *)
(*             directory whose name ends in .py;                           *)
(*   SpecEnv   the same while another process changes the files it reads   *)
(*             and time passes;                                            *)
(*   SpecExt   several processes running ServiceStore.decompress against   *)
(*             the same working root;                                      *)
(*   SpecHook  ServiceStore._invoke_hook invoked on services;              *)
(*   SpecAcc   imports with calls of new_instance and service_data;        *)
(*   SpecConn  zato.server.connection.BaseConnection: the thread running   *)
(*             start and a caller of close.                                *)
(***************************************************************************)
EXTENDS Integers, Sequences, FiniteSets, TLC

\* ------------------------------------------------------------------ bounds

\* number of items given to import_services_from_anywhere, over all its calls
MaxItems == 3
\* the same, when the files change while the server imports (SpecEnv)
MaxEnvItems == 2
\* number of changes around the server: a file written, removed or made
\* unreadable by another process, or the clock advancing (SpecEnv)
MaxEnv == 1
\* the same, over the items of every shape (SpecItems)
MaxShapeItems == 2
\* the clock (fs_safe_now) takes the values 0..MaxClock (SpecExt)
MaxClock == 1
\* number of decompress calls each process makes (SpecExt)
MaxRuns == 2
\* number of _invoke_hook calls (SpecHook)
MaxHooks == 3
\* number of items imported while the accessors are called (SpecAcc)
MaxAccItems == 1
\* number of calls of new_instance and service_data (SpecAcc)
MaxAccess == 2
\* number of calls of _start one call of BaseConnection.start makes (SpecConn)
MaxStarts == 3

\* ------------------------------------------------------- values of Python

\* None, for the fields that hold a number when set
NoneVal == -1
\* None, for the fields that hold a string when set
NoneStr == "None"

\* ------------------------------------------------------ the world of types

Service == "Service"
AdminService == "AdminService"
\* the object every class derives from
Object == "object"

\* the classes the units of this model define or import
Types == {Service, AdminService, "SvcA", "SvcB", "AdmC", "SvcD", "Hidden", "HiddenSub", "Plain"}

\* values that are not classes: a function and a constant
NonTypes == {"helper", "CONST"}

\* the direct base class of a class
Base(t) ==
    CASE t = Service -> Object
      [] t = AdminService -> Service
      [] t = "SvcA" -> Service
      [] t = "SvcB" -> Service
      [] t = "AdmC" -> AdminService
      [] t = "SvcD" -> Service
      [] t = "Hidden" -> Service
      [] t = "HiddenSub" -> "Hidden"
      [] OTHER -> Object

\* the classes whose own body sets DONT_DEPLOY_ATTR_NAME
DeclaresDontDeploy == {"Hidden"}

\* the module in which a class is defined (class_obj.__module__)
DefModule(t) ==
    CASE t \in {Service} -> "zato.server.service"
      [] t = AdminService -> "zato.server.service.internal"
      [] t \in {"SvcA", "SvcB", "Plain"} -> "a"
      [] t \in {"AdmC", "Hidden", "HiddenSub"} -> "zato.mod"
      [] t = "SvcD" -> "s"
      [] OTHER -> "builtins"

\* ------------------------------------------------------------ file system

\* A path: a file `file` in the directory `base`; ts and rand are set for the
\* directories decompress creates under the working root, {ts}-{rand}/{base}.
Path(ts, rand, base, file) == [ts |-> ts, rand |-> rand, base |-> base, file |-> file]

\* a file outside the working root
StaticPath(base, file) == Path(NoneVal, "", base, file)

fileA == StaticPath("", "a.py")
fileGone == StaticPath("", "gone.py")
fileDir == StaticPath("zato_dir", "s.py")
fileMod == StaticPath("zato", "mod.py")
\* a source file of the distribution directory called pkg.py
filePkg == StaticPath("pkg.py", "s.py")
\* a source file that defines no service
fileU == StaticPath("", "u.py")

\* the files another process may change while the server imports
EnvFiles == {fileA, fileMod}

\* the revisions a file's contents go through
Revisions == {1, 2}

\* the number that stands for a file name in the bytes of its contents
FileNo(name) ==
    CASE name = "a.py" -> 1
      [] name = "s.py" -> 3
      [] name = "mod.py" -> 4
      [] name = "u.py" -> 6
      [] OTHER -> 5

\* the bytes of revision rev of the file called name
FileBytes(name, rev) == 10 * FileNo(name) + rev

\* dir(mod) of the unit loaded from revision rev of the file called name:
\* the values it exposes, in the order of their names
Exposes(name, rev) ==
    CASE name = "a.py" /\ rev = 1 -> <<"CONST", "Plain", Service, "SvcA", "helper">>
      [] name = "a.py" /\ rev = 2 -> <<Service, "SvcA", "SvcB">>
      [] name = "s.py" -> <<Service, "SvcD", "helper">>
      [] name = "mod.py" -> <<"AdmC", AdminService, "Hidden", "HiddenSub", Service>>
      [] name = "u.py" -> <<"CONST", "Plain", Service, "helper">>
      [] OTHER -> <<>>

\* ------------------------------------------------------------------ items

ItemNames == {"a.py", "gone.py", "zato_dir", "zato_pkg.zip", "zato.mod"}

\* the items whose files another process changes while the server imports
EnvItems == {"a.py", "zato.mod"}

\* items of every shape: pkg.py is a distribution directory, u.py a source
\* file that defines no service
ShapeItems == {"a.py", "u.py", "gone.py", "pkg.py", "zato_pkg.zip", "zato.mod"}

\* item_name.startswith('zato')
StartsWithZato(item) == item \in {"zato_dir", "zato_pkg.zip", "zato.mod"}

\* pip.download.is_archive_file: decided by the extension
is_archive_file(item) == item \in {"zato_pkg.zip"}

\* os.path.isdir
isdir(item) == item \in {"zato_dir", "pkg.py"}

\* zato.common.util.is_python_file: the name ends in .py or .pyw
is_python_file(item) == item \in {"a.py", "u.py", "gone.py", "pkg.py"}

\* the if/elif chain of lines 118-132 with the test for a source file put
\* before the test for a directory
dispatch_path_file_first(item) ==
    IF is_archive_file(item) THEN "archive"
    ELSE IF is_python_file(item) THEN "file"
    ELSE IF isdir(item) THEN "directory"
    ELSE "module"

\* the if/elif chain of lines 118-132: the path an item is handled by
dispatch_path(item) ==
    IF is_archive_file(item) THEN "archive"
    ELSE IF isdir(item) THEN "directory"
    ELSE IF is_python_file(item) THEN "file"
    ELSE "module"

\* os.path.normpath(os.path.join(base_dir, file_name)) of a relative file name
JoinBase(item) == StaticPath("", item)

\* the file the runtime resolves a module name to
ModuleFile(mod_name) == IF mod_name = "zato.mod" THEN fileMod ELSE fileGone

\* os.path.split(archive)[1]
BaseName(archive) == archive

\* the source files a distribution's setup.cfg lists, under the directory d
DistributionFiles(d) == <<"s.py">>

\* ------------------------------------------- loading a file (lines 140-153)

\* file_name + suffix: the compiled form of a source file
Sibling(p, suffix) == [p EXCEPT !.file = p.file \o suffix]

\* the compiled siblings import_services_from_file looks for (line 148)
Compiled(p) == {Sibling(p, "c"), Sibling(p, "o")}

\* the loop of lines 148-151 leaving the compiled files where they are
remove_compiled_none(f, p) == f

\* lines 148-151: os.remove of every compiled sibling that exists
remove_compiled(f, p) == [q \in DOMAIN f \ Compiled(p) |-> f[q]]

\* imp.load_source loading whatever the path holds, readable or not
load_source_unchecked(f, nr, p) ==
    IF Sibling(p, "c") \in DOMAIN f
    THEN [outcome |-> "loaded", rev |-> f[Sibling(p, "c")], form |-> "compiled"]
    ELSE [outcome |-> "loaded", rev |-> f[p], form |-> "source"]

\* imp.load_source(mod_name, file_name) in the file system (f, nr): the source
\* file is opened, which fails when it cannot be read; a compiled file beside
\* it is used in place of the source, and otherwise the source is compiled
load_source(f, nr, p) ==
    IF p \in nr
    THEN [outcome |-> "IOError", rev |-> 0, form |-> "none"]
    ELSE IF Sibling(p, "c") \in DOMAIN f
    THEN [outcome |-> "loaded", rev |-> f[Sibling(p, "c")], form |-> "compiled"]
    ELSE [outcome |-> "loaded", rev |-> f[p], form |-> "source"]

\* the file system once imp.load_source has loaded revision rev from the
\* source: the compiled form is written beside it
write_compiled(f, p, rev) == (Sibling(p, "c") :> rev) @@ f

\* ------------------------------------------------- eligibility (lines 170-180)

\* whether the value is a class at all; issubclass raises TypeError otherwise
IsClass(item) == item \in Types

RECURSIVE Mro(_)
\* the class and its bases, most derived first
Mro(t) == IF t = Object THEN <<Object>> ELSE <<t>> \o Mro(Base(t))

\* issubclass(item, cls) for a class item
issubclass(item, cls) == \E i \in 1..Len(Mro(item)) : Mro(item)[i] = cls

\* hasattr(item, DONT_DEPLOY_ATTR_NAME): attribute lookup walks the bases
HasDontDeploy(item) == \E i \in 1..Len(Mro(item)) : Mro(item)[i] \in DeclaresDontDeploy

\* _should_deploy without the test that the class is not AdminService
should_deploy_no_admin_test(item) ==
    IF ~IsClass(item) THEN FALSE
    ELSE /\ issubclass(item, Service)
         /\ item # Service
         /\ ~HasDontDeploy(item)

\* _should_deploy letting the TypeError of a non-class pass as a yes
should_deploy_any_value(item) ==
    IF ~IsClass(item) THEN TRUE
    ELSE /\ issubclass(item, Service)
         /\ item # AdminService /\ item # Service
         /\ ~HasDontDeploy(item)

\* ServiceStore._should_deploy; the TypeError of a non-class is caught and the
\* method falls off its end, returning None
should_deploy(item) ==
    IF ~IsClass(item) THEN FALSE
    ELSE /\ issubclass(item, Service)
         /\ item # AdminService /\ item # Service
         /\ ~HasDontDeploy(item)

\* Service.get_impl_name: the defining module and the class name
get_impl_name(item) == <<DefModule(item), item>>

\* Service.get_name: the name the service is known by
get_name(item) == <<"name", DefModule(item), item>>

\* --------------------------------------------------- provenance (182-202)

\* sha256(bytes).hexdigest(); injective on the bytes of this model
sha256(bytes) == 7 * bytes + 3

\* SourceInfo(): all fields None
EmptySourceInfo ==
    [source |-> NoneVal, path |-> NoneStr, hash |-> NoneVal, hash_method |-> NoneStr]

\* _get_source_code_info taking the digest of the file's name, not of the
\* bytes it has read
get_source_code_info_of_name(f, nr, p) ==
    IF p \in DOMAIN f /\ p \notin nr
    THEN [source |-> FileBytes(p.file, f[p]), path |-> p.file,
          hash |-> sha256(FileNo(p.file)), hash_method |-> "SHA-256"]
    ELSE [source |-> NoneVal, path |-> NoneStr, hash |-> NoneVal, hash_method |-> NoneStr]

\* whether open(file_name, 'rb').read() succeeds in the file system f, noread
CanRead(f, nr, p) == p \in DOMAIN f /\ p \notin nr

\* ServiceStore._get_source_code_info of a module whose __file__ is p, read
\* from the file system (f, nr) as it is at the moment of the call
get_source_code_info(f, nr, p) ==
    IF CanRead(f, nr, p)
    THEN LET source == FileBytes(p.file, f[p])
         IN [source |-> source, path |-> p.file,
             hash |-> sha256(source), hash_method |-> "SHA-256"]
    ELSE EmptySourceInfo

\* zato.common.util.deployment_info
deployment_info(method, item, timestamp, fs_location) ==
    [method |-> method, item |-> item, timestamp |-> timestamp, fs_location |-> fs_location]

\* ------------------------------------------------------- the registry dict

\* the keys of the dict d (a set of entries [key, val])
Keys(d) == {e.key : e \in d}

\* d[k] = v done as if every key might hold several values
DictSetAppend(d, k, v) == d \cup {[key |-> k, val |-> v]}

\* d[k] = v done by building a new dict that holds k alone
DictSetAlone(d, k, v) == {[key |-> k, val |-> v]}

\* d[k] = v
DictSet(d, k, v) == {e \in d : e.key # k} \cup {[key |-> k, val |-> v]}

\* d[k]
DictGet(d, k) == (CHOOSE e \in d : e.key = k).val

\* a descriptor under construction: self.services[class_name] = {} followed by
\* the assignments of lines 215-216
NewDescriptor(depl_info, item) ==
    [deployment_info |-> depl_info, service_class |-> item,
     is_active |-> FALSE, keys |-> {"deployment_info", "service_class"}]

\* the registry deciding by itself that the service is active
WithIsActiveTrue(desc, is_active) ==
    [desc EXCEPT !.is_active = TRUE, !.keys = @ \cup {"is_active"}]

\* self.services[class_name]['is_active'] = is_active
WithIsActive(desc, is_active) ==
    [desc EXCEPT !.is_active = is_active, !.keys = @ \cup {"is_active"}]

\* ------------------------------------------------- accessors (lines 81-89)

\* the items imported while the accessors are called
AccItems == {"a.py", "zato.mod"}

\* the identities the accessors are called with; no unit defines b.SvcB
AccIds == {<<"a", "SvcA">>, <<"b", "SvcB">>}

\* d[k], raising KeyError when the dict has no such key
Subscript(d, k) ==
    IF k \in Keys(d) THEN [outcome |-> "returned", value |-> DictGet(d, k)]
    ELSE [outcome |-> "KeyError", value |-> NoneStr]

\* service_data written with dict.get: None for a key that is missing
service_data_get(d, class_name) ==
    IF class_name \in Keys(d) THEN [outcome |-> "returned", value |-> DictGet(d, class_name)]
    ELSE [outcome |-> "returned", value |-> NoneStr]

\* ServiceStore.service_data (line 89)
service_data(d, class_name) == Subscript(d, class_name)

\* the instances among what the calls recorded in a have returned
Instances(a) ==
    {a[i].got.value : i \in {j \in 1..Len(a) : a[j].op = "new_instance"
                                                /\ a[j].got.outcome = "returned"}}

\* ServiceStore.new_instance (line 84): the class registered under the name is
\* called, which makes an object that is none of those existing
new_instance(d, class_name, existing) ==
    IF Subscript(d, class_name).outcome = "returned"
    THEN [outcome |-> "returned",
          value |-> [class |-> Subscript(d, class_name).value.service_class,
                     id |-> Cardinality(existing) + 1]]
    ELSE Subscript(d, class_name)

\* ------------------------------------------------------ decompress (91-106)

Rands == {"r1", "r2"}

\* the directory '{ts}-{rand}' under the working root
HeadDir(ts, rand) == [ts |-> ts, rand |-> rand, base |-> ""]

\* os.path.join(work_dir, '{}-{}'.format(fs_safe_now(), rand), os.path.split(archive)[1])
SynthDir(ts, rand, archive) == [ts |-> ts, rand |-> rand, base |-> BaseName(archive)]

\* os.makedirs accepting a directory that exists already
MakedirsExistOk(ds, d) == TRUE

\* os.makedirs(dir_name) succeeds: an existing parent is accepted, the
\* directory itself must not exist (mkdir raises OSError, EEXIST)
MakedirsOk(ds, d) == d \notin ds

\* the directories after os.makedirs(dir_name)
Makedirs(ds, d) == ds \cup {HeadDir(d.ts, d.rand), d}

\* the files zato.common.util.decompress writes into the directory d
ExtractedFiles(d) == {Path(d.ts, d.rand, d.base, "s.py")}

\* the processes that share the working root
Procs == {"p1", "p2"}

\* the archives they deploy
Archives == {"zato_pkg.zip", "lib.zip"}

\* a process that is not in decompress
IdleExt == [pc |-> "idle", run |-> 0, archive |-> "", dir |-> HeadDir(NoneVal, "")]

\* ---------------------------------------------------- _invoke_hook (70-79)

\* the names bound in the body of _invoke_hook when the except clause runs
HookLocals == {"self", "object_", "hook_name", "hook"}

\* the names bound at the top level of the module (lines 23-62)
ModuleGlobals ==
    {"imp", "inspect", "logging", "os", "datetime", "sha256", "import_module", "getmtime",
     "format_exc", "uuid4", "is_archive_file", "dumps", "Dumper", "InitializingObject",
     "DONT_DEPLOY_ATTR_NAME", "SourceInfo", "decompress", "deployment_info", "fs_safe_now",
     "is_python_file", "TRACE1", "visit_py_source_from_distribution", "Service",
     "AdminService", "logger", "get_service_name", "ServiceStore"}

\* the names the expression of lines 77-78 reads
HandlerReads == {"hook_name", "service_name", "format_exc"}

\* evaluating lines 77-78 raises NameError when a name it reads is unbound
HandlerRaises == \E n \in HandlerReads : n \notin HookLocals \cup ModuleGlobals

\* what a hook does when called: getattr may find no such attribute, and the
\* hook returns or raises
HookBehaviours == {"returns", "raises", "missing"}

\* the hooks of a service
HookNames == {"before_add_to_store", "after_add_to_store"}

\* _invoke_hook(object_, hook_name) where the hook behaves as given: how the
\* call ends and whether logger.error was reached
invoke_hook(object_, hook_name, behaviour) ==
    IF behaviour = "returns"
    THEN [object |-> object_, hook_name |-> hook_name, behaviour |-> behaviour,
          logged |-> FALSE, outcome |-> "returned"]
    ELSE IF HandlerRaises
    THEN [object |-> object_, hook_name |-> hook_name, behaviour |-> behaviour,
          logged |-> FALSE, outcome |-> "NameError"]
    ELSE [object |-> object_, hook_name |-> hook_name, behaviour |-> behaviour,
          logged |-> TRUE, outcome |-> "returned"]

\* ------------------------------------- BaseConnection (connection/__init__.py)

\* self.reconnect_sleep_time, in seconds
reconnect_sleep_time == 5

\* the exceptions _start raises in this model
Exceptions == {"socket.error", "AMQPConnectionError", "ValueError", "KeyboardInterrupt"}

\* those a subclass may list in reconnect_exceptions
Recoverable == {"socket.error", "AMQPConnectionError"}

\* BaseConnection.__init__, with the reconnect_exceptions a subclass sets; pc
\* is where the thread running start is, starts counts the calls of _start,
\* exc is the exception the last one raised, answer what _keep_connecting
\* said of it, closed_at the number of _start calls made when close set
\* keep_connecting to False
NewConnection(excs) ==
    [reconnect_exceptions |-> excs,
     connection_attempts |-> 1,
     first_connection_attempt_time |-> NoneVal,
     keep_connecting |-> TRUE,
     has_valid_connection |-> FALSE,
     pc |-> "new", starts |-> 0, sleeps |-> 0, exc |-> NoneStr, answer |-> NoneStr,
     closed_at |-> NoneVal]

\* _no_valid_connection (lines 124-138): one more attempt is counted and the
\* thread sleeps
no_valid_connection(c) ==
    [c EXCEPT !.connection_attempts = @ + 1, !.pc = "sleep", !.sleeps = @ + 1]

\* _on_connected setting connection_attempts whatever has_valid_connection is
on_connected_unconditional(c) == [c EXCEPT !.connection_attempts = 1]

\* _on_connected (lines 105-117)
on_connected(c) ==
    IF c.has_valid_connection THEN [c EXCEPT !.connection_attempts = 1] ELSE c

\* lines 144-159 when _start has returned
start_returned(c, t) ==
    LET d == [c EXCEPT !.exc = NoneStr, !.answer = NoneStr,
                       !.first_connection_attempt_time =
                           IF c.has_valid_connection THEN t ELSE @]
    IN IF ~d.has_valid_connection THEN no_valid_connection(d) ELSE [d EXCEPT !.pc = "test"]

\* the except clause of lines 150-156 retrying whatever _keep_connecting says
start_raised_always_retry(c, e, answer) ==
    IF e \in c.reconnect_exceptions
    THEN no_valid_connection([c EXCEPT !.exc = e, !.answer = answer])
    ELSE [c EXCEPT !.exc = e, !.answer = NoneStr, !.pc = "raised"]

\* lines 144-156 when _start has raised e and _keep_connecting, if asked,
\* gives the answer
start_raised(c, e, answer) ==
    IF e \in c.reconnect_exceptions
    THEN IF answer = "yes"
         THEN no_valid_connection([c EXCEPT !.exc = e, !.answer = answer])
         ELSE [c EXCEPT !.exc = e, !.answer = answer, !.pc = "raised"]
    ELSE [c EXCEPT !.exc = e, !.answer = NoneStr, !.pc = "raised"]

\* ------------------------------------------------------------------ state

VARIABLES
    fs,          \* the files that exist: path -> revision of the contents
    noread,      \* the existing files that cannot be opened for reading
    dirs,        \* the directories created under the working root
    wrote,       \* which decompress call wrote into which of these directories
    now,         \* the clock
    sys_modules, \* the modules import_module has loaded: name -> revision
    services,    \* ServiceStore.services, a dict: identity -> descriptor
    odb,         \* the calls of odb.add_service that completed, in order
    pc,          \* where import_services_from_anywhere is
    items,       \* its argument
    idx,         \* the position of item_name in items
    fileq,       \* the files import_services_from_file is still to be called on
    visit,       \* the module _visit_module is visiting
    attrq,       \* the values of dir(mod) still to be visited
    result,      \* how the last call ended
    calls,       \* number of calls made
    used,        \* number of items given to the calls made
    envs,        \* number of changes made by the other process
    attempted,   \* the positions of items the current call has reached
    handled,     \* the item last dispatched: by which path, and what the
                 \* registry and the durable store held at that moment
    visited,     \* the eligible values _visit_module has reached, in order
    xp,          \* the decompress call of each process (SpecExt)
    hooks,       \* the calls of _invoke_hook and how each ended (SpecHook)
    acc,         \* the calls of new_instance and service_data, with what the
                 \* registry and the durable store held before each (SpecAcc)
    conn         \* a BaseConnection and the thread running its start (SpecConn)

vars == <<fs, noread, dirs, wrote, now, sys_modules, services, odb, pc, items, idx,
          fileq, visit, attrq, result, calls, used, envs, attempted, handled, visited, xp,
          hooks, acc, conn>>

fsVars == <<fs, noread>>
dirVars == <<dirs, wrote>>
storeVars == <<services, odb>>
extVars == <<xp>>
hookVars == <<hooks>>
accVars == <<acc>>
connVars == <<conn>>

\* no module is being visited
NoVisit == [file |-> fileGone, rev |-> 0, is_internal |-> FALSE, item |-> "",
            removed |-> {}, compiled |-> {}, form |-> "none"]

InitFiles == [p \in {fileA, fileDir, fileMod, filePkg, fileU} |-> 1]

\* no item was dispatched yet
NoHandled == [call |-> 0, idx |-> 0, item |-> "", path |-> "none", steps |-> <<>>,
              services |-> {}, odb |-> 0]

InitCommon ==
    /\ fs = InitFiles
    /\ noread = {}
    /\ dirs = {}
    /\ wrote = {}
    /\ now = 0
    /\ sys_modules = <<>>
    /\ services = {}
    /\ odb = <<>>
    /\ pc = "idle"
    /\ items = <<>>
    /\ idx = 0
    /\ fileq = <<>>
    /\ visit = NoVisit
    /\ attrq = <<>>
    /\ result = "none"
    /\ calls = 0
    /\ used = 0
    /\ envs = 0
    /\ attempted = {}
    /\ handled = NoHandled
    /\ visited = <<>>
    /\ xp = [p \in Procs |-> IdleExt]
    /\ hooks = <<>>
    /\ acc = <<>>

Init == InitCommon /\ conn = NewConnection({})

\* a connection of a subclass, which sets reconnect_exceptions
InitConn == InitCommon /\ \E excs \in SUBSET Recoverable : conn = NewConnection(excs)

\* ---------------------------------------------------------- the batches

\* the sequences of length 1..n of items of the set S
Batches(S, n) == UNION {[1..k -> S] : k \in 1..n}

\* the batches of items of S a caller can still hand over when max items are
\* allowed in all
Remaining(S, max) == IF used < max THEN Batches(S, max - used) ELSE {}

\* an exception leaves import_services_from_anywhere: the call is over
Raise(exc) ==
    /\ pc' = "idle"
    /\ result' = exc
    /\ fileq' = <<>>
    /\ visit' = NoVisit
    /\ attrq' = <<>>

\* -------------------------------------------------------------- actions

\* a caller invokes import_services_from_anywhere(its, base_dir, work_dir)
Call(its) ==
    /\ pc = "idle"
    /\ used' = used + Len(its)
    /\ calls' = calls + 1
    /\ items' = its
    /\ idx' = 1
    /\ pc' = "loop"
    /\ result' = "running"
    /\ attempted' = {}
    /\ UNCHANGED <<fsVars, dirVars, now, sys_modules, storeVars, fileq, visit, attrq,
                   envs, handled, visited, extVars, hookVars, accVars, connVars>>

\* the for loop of line 112 is exhausted: the call returns
Return ==
    /\ pc = "loop"
    /\ idx > Len(items)
    /\ pc' = "idle"
    /\ result' = "returned"
    /\ UNCHANGED <<fsVars, dirVars, now, sys_modules, storeVars, items, idx, fileq, visit,
                   attrq, calls, used, envs, attempted, handled, visited, extVars, hookVars, accVars, connVars>>

\* the item at the head of the loop is handled by the given path, calling the
\* given methods in this order
Handle(path, steps) ==
    [call |-> calls, idx |-> idx, item |-> items[idx], path |-> path, steps |-> steps,
     services |-> services, odb |-> Len(odb)]

\* lines 118-120: an archive is decompressed into a new directory, whose
\* source files import_services_from_directory then goes through
DispatchArchive ==
    /\ pc = "loop" /\ idx <= Len(items)
    /\ dispatch_path(items[idx]) = "archive"
    /\ attempted' = attempted \cup {idx}
    /\ handled' = Handle("archive", <<"decompress", "import_services_from_directory">>)
    /\ \E rand \in Rands :
         LET d == SynthDir(now, rand, items[idx])
         IN IF MakedirsOk(dirs, d)
            THEN /\ dirs' = Makedirs(dirs, d)
                 /\ wrote' = wrote \cup {<<d, <<"server", calls, idx>>>>}
                 /\ fs' = fs @@ [p \in ExtractedFiles(d) |-> 1]
                 /\ fileq' = [i \in 1..Len(DistributionFiles(d)) |->
                               [path |-> Path(d.ts, d.rand, d.base, DistributionFiles(d)[i]),
                                is_internal |-> FALSE]]
                 /\ pc' = "files"
                 /\ UNCHANGED <<result, visit, attrq>>
            ELSE /\ Raise("OSError.makedirs")
                 /\ UNCHANGED <<dirs, wrote, fs>>
    /\ UNCHANGED <<noread, now, sys_modules, storeVars, items, idx, calls, used, envs, visited,
                   extVars, hookVars, accVars, connVars>>

\* lines 123-124 and 161-162: every source file of the distribution is
\* imported with is_internal False
DispatchDirectory ==
    /\ pc = "loop" /\ idx <= Len(items)
    /\ dispatch_path(items[idx]) = "directory"
    /\ attempted' = attempted \cup {idx}
    /\ handled' = Handle("directory", <<"import_services_from_directory">>)
    /\ fileq' = [i \in 1..Len(DistributionFiles(items[idx])) |->
                   [path |-> StaticPath(items[idx], DistributionFiles(items[idx])[i]),
                    is_internal |-> FALSE]]
    /\ pc' = "files"
    /\ UNCHANGED <<fsVars, dirVars, now, sys_modules, storeVars, items, idx, visit, attrq,
                   result, calls, used, envs, visited, extVars, hookVars, accVars, connVars>>

\* lines 127-128 and 137-138: a source file, made absolute with base_dir
DispatchFile ==
    /\ pc = "loop" /\ idx <= Len(items)
    /\ dispatch_path(items[idx]) = "file"
    /\ attempted' = attempted \cup {idx}
    /\ handled' = Handle("file", <<"import_services_from_file">>)
    /\ fileq' = <<[path |-> JoinBase(items[idx]), is_internal |-> StartsWithZato(items[idx])]>>
    /\ pc' = "files"
    /\ UNCHANGED <<fsVars, dirVars, now, sys_modules, storeVars, items, idx, visit, attrq,
                   result, calls, used, envs, visited, extVars, hookVars, accVars, connVars>>

\* lines 131-132 and 164-168: import_module returns the module already loaded
\* under that name, or loads it from its file
DispatchModule ==
    /\ pc = "loop" /\ idx <= Len(items)
    /\ dispatch_path(items[idx]) = "module"
    /\ attempted' = attempted \cup {idx}
    /\ handled' = Handle("module", <<"import_services_from_module">>)
    /\ LET name == items[idx]
           file == ModuleFile(name)
       IN IF name \in DOMAIN sys_modules \/ CanRead(fs, noread, file)
          THEN LET rev == IF name \in DOMAIN sys_modules THEN sys_modules[name] ELSE fs[file]
               IN /\ sys_modules' = (name :> rev) @@ sys_modules
                  /\ visit' = [file |-> file, rev |-> rev,
                               is_internal |-> StartsWithZato(name), item |-> name,
                               removed |-> {}, compiled |-> {}, form |-> "module"]
                  /\ attrq' = Exposes(file.file, rev)
                  /\ fileq' = <<>>
                  /\ pc' = "visit"
                  /\ UNCHANGED result
          ELSE /\ Raise("ImportError")
               /\ UNCHANGED sys_modules
    /\ UNCHANGED <<fsVars, dirVars, now, storeVars, items, idx, calls, used, envs, visited,
                   extVars, hookVars, accVars, connVars>>

\* import_services_from_file, lines 140-154, on the next file: it must exist,
\* its compiled siblings are removed, and imp.load_source loads what the path
\* holds now; visit records which siblings were removed, which were there
\* when imp.load_source ran, and which form it loaded
LoadFile ==
    /\ pc = "files" /\ fileq # <<>>
    /\ LET f == Head(fileq)
       IN IF f.path \notin DOMAIN fs
          THEN /\ Raise("ValueError")
               /\ UNCHANGED fs
          ELSE LET cleaned == remove_compiled(fs, f.path)
                   loaded == load_source(cleaned, noread, f.path)
               IN IF loaded.outcome # "loaded"
                  THEN /\ Raise(loaded.outcome)
                       /\ fs' = cleaned
                  ELSE /\ visit' = [file |-> f.path, rev |-> loaded.rev,
                                    is_internal |-> f.is_internal, item |-> items[idx],
                                    removed |-> Compiled(f.path) \cap DOMAIN fs,
                                    compiled |-> Compiled(f.path) \cap DOMAIN cleaned,
                                    form |-> loaded.form]
                       /\ fs' = IF loaded.form = "source"
                                THEN write_compiled(cleaned, f.path, loaded.rev)
                                ELSE cleaned
                       /\ attrq' = Exposes(f.path.file, loaded.rev)
                       /\ fileq' = Tail(fileq)
                       /\ pc' = "visit"
                       /\ UNCHANGED result
    /\ UNCHANGED <<noread, dirVars, now, sys_modules, storeVars, items, idx, calls, used, envs,
                   attempted, handled, visited, extVars, hookVars, accVars, connVars>>

\* os.path.getmtime(mod.__file__) succeeds: the file exists (line 220)
GetmtimeOk(f, p) == p \in DOMAIN f

\* the arguments of odb.add_service (lines 221-222) with the answer it gave
AddServiceCall(item, is_internal, timestamp, depl_info, si, is_active) ==
    [name |-> get_name(item), impl_name |-> get_impl_name(item),
     is_internal |-> is_internal, timestamp |-> timestamp,
     depl_info |-> <<"json", depl_info>>, si |-> si,
     is_active |-> is_active, item |-> visit.item, call |-> calls]

\* the values of q from the first deployable one on: the loop of lines 207-209
\* passes over the others without any effect
FromDeployable(q) ==
    IF \E i \in 1..Len(q) : should_deploy(q[i])
    THEN SubSeq(q, CHOOSE i \in 1..Len(q) : /\ should_deploy(q[i])
                                            /\ \A j \in 1..(i - 1) : ~should_deploy(q[j]),
                Len(q))
    ELSE <<>>

\* _visit_module, lines 207-224, up to and including the next deployable value
\* of dir(mod): the descriptor is put in the registry, the source is read, the
\* file's mtime is taken, the durable store is called, which answers is_active
\* or raises, and is_active is stored
VisitDeploy ==
    /\ pc = "visit" /\ FromDeployable(attrq) # <<>>
    /\ LET item == Head(FromDeployable(attrq))
           timestamp == now
           depl_info == deployment_info("ServiceStore", item, timestamp, visit.file)
           class_name == get_impl_name(item)
           desc == NewDescriptor(depl_info, item)
           si == get_source_code_info(fs, noread, visit.file)
       IN /\ visited' = Append(visited, [identity |-> class_name, call |-> calls])
          /\ IF ~GetmtimeOk(fs, visit.file)
             THEN /\ services' = DictSet(services, class_name, desc)
                  /\ Raise("OSError.getmtime")
                  /\ UNCHANGED odb
             ELSE \/ /\ services' = DictSet(services, class_name, desc)
                     /\ Raise("OdbError")
                     /\ UNCHANGED odb
                  \/ \E is_active \in BOOLEAN :
                       /\ odb' = Append(odb, AddServiceCall(item, visit.is_internal, timestamp,
                                                            depl_info, si, is_active))
                       /\ services' = DictSet(services, class_name,
                                              WithIsActive(desc, is_active))
                       /\ attrq' = Tail(FromDeployable(attrq))
                       /\ UNCHANGED <<pc, result, fileq, visit>>
    /\ UNCHANGED <<fsVars, dirVars, now, sys_modules, items, idx, calls, used, envs, attempted, handled,
                   extVars, hookVars, accVars, connVars>>

\* no deployable value is left in dir(mod): _visit_module returns, and with it
\* import_services_from_file or import_services_from_module; when that was
\* the item's last file the for loop of line 112 takes the next item
VisitDone ==
    /\ pc = "visit" /\ FromDeployable(attrq) = <<>>
    /\ attrq' = <<>>
    /\ visit' = NoVisit
    /\ IF fileq # <<>>
       THEN pc' = "files" /\ idx' = idx
       ELSE pc' = "loop" /\ idx' = idx + 1
    /\ UNCHANGED <<fsVars, dirVars, now, sys_modules, storeVars, items, fileq,
                   result, calls, used, envs, attempted, handled, visited, extVars, hookVars, accVars, connVars>>

\* ------------------------------------------------- the rest of the system

\* another process saves new contents to a file
EnvWrite(p) ==
    /\ envs < MaxEnv
    /\ p \in DOMAIN fs
    /\ envs' = envs + 1
    /\ \E r \in Revisions \ {fs[p]} : fs' = [fs EXCEPT ![p] = r]
    /\ UNCHANGED <<noread, dirVars, now, sys_modules, storeVars, pc, items, idx, fileq, visit,
                   attrq, result, calls, used, attempted, handled, visited, extVars, hookVars, accVars, connVars>>

\* another process removes a file
EnvRemove(p) ==
    /\ envs < MaxEnv
    /\ p \in DOMAIN fs
    /\ envs' = envs + 1
    /\ fs' = [q \in DOMAIN fs \ {p} |-> fs[q]]
    /\ noread' = noread \ {p}
    /\ UNCHANGED <<dirVars, now, sys_modules, storeVars, pc, items, idx, fileq, visit,
                   attrq, result, calls, used, attempted, handled, visited, extVars, hookVars, accVars, connVars>>

\* another process takes the permission to read a file away
EnvChmod(p) ==
    /\ envs < MaxEnv
    /\ p \in DOMAIN fs /\ p \notin noread
    /\ envs' = envs + 1
    /\ noread' = noread \cup {p}
    /\ UNCHANGED <<fs, dirVars, now, sys_modules, storeVars, pc, items, idx, fileq, visit,
                   attrq, result, calls, used, attempted, handled, visited, extVars, hookVars, accVars, connVars>>

\* time passes
EnvTick ==
    /\ envs < MaxEnv
    /\ envs' = envs + 1
    /\ now' = now + 1
    /\ UNCHANGED <<fsVars, dirVars, sys_modules, storeVars, pc, items, idx, fileq, visit,
                   attrq, result, calls, used, attempted, handled, visited, extVars, hookVars, accVars, connVars>>

\* ----------------------------------------- decompress by several processes

\* lines 96-98: the process p draws rand and reads the clock
ExtName(p, archive, rand) ==
    /\ xp[p].pc \in {"idle", "done", "failed"}
    /\ xp[p].run < MaxRuns
    /\ xp' = [xp EXCEPT ![p] = [pc |-> "named", run |-> xp[p].run + 1, archive |-> archive,
                                dir |-> SynthDir(now, rand, archive)]]
    /\ UNCHANGED <<fsVars, dirVars, now, sys_modules, storeVars, pc, items, idx, fileq, visit,
                   attrq, result, calls, used, envs, attempted, handled, visited, hookVars, accVars, connVars>>

\* line 99: os.makedirs(dir_name)
ExtMakedirs(p) ==
    /\ xp[p].pc = "named"
    /\ IF MakedirsOk(dirs, xp[p].dir)
       THEN /\ dirs' = Makedirs(dirs, xp[p].dir)
            /\ xp' = [xp EXCEPT ![p].pc = "made"]
       ELSE /\ xp' = [xp EXCEPT ![p].pc = "failed"]
            /\ UNCHANGED dirs
    /\ UNCHANGED <<fsVars, wrote, now, sys_modules, storeVars, pc, items, idx, fileq, visit,
                   attrq, result, calls, used, envs, attempted, handled, visited, hookVars, accVars, connVars>>

\* lines 102-106: the archive is unpacked into the directory, which is returned
ExtUnpack(p) ==
    /\ xp[p].pc = "made"
    /\ wrote' = wrote \cup {<<xp[p].dir, <<p, xp[p].run, 0>>>>}
    /\ fs' = [q \in ExtractedFiles(xp[p].dir) |-> 1] @@ fs
    /\ xp' = [xp EXCEPT ![p].pc = "done"]
    /\ UNCHANGED <<noread, dirs, now, sys_modules, storeVars, pc, items, idx, fileq, visit,
                   attrq, result, calls, used, envs, attempted, handled, visited, hookVars, accVars, connVars>>

\* time passes
Tick ==
    /\ now < MaxClock
    /\ now' = now + 1
    /\ UNCHANGED <<fsVars, dirVars, sys_modules, storeVars, pc, items, idx, fileq, visit,
                   attrq, result, calls, used, envs, attempted, handled, visited, extVars, hookVars, accVars, connVars>>

\* ------------------------------------------------------------------ hooks

\* a caller invokes _invoke_hook(object_, hook_name)
InvokeHook(object_, hook_name, behaviour) ==
    /\ Len(hooks) < MaxHooks
    /\ hooks' = Append(hooks, invoke_hook(object_, hook_name, behaviour))
    /\ UNCHANGED <<fsVars, dirVars, now, sys_modules, storeVars, pc, items, idx, fileq, visit,
                   attrq, result, calls, used, envs, attempted, handled, visited, extVars,
                   accVars, connVars>>

\* -------------------------------------------------------------- accessors

\* a caller invokes service_data(class_name)
ServiceData(class_name) ==
    /\ Len(acc) < MaxAccess
    /\ acc' = Append(acc, [op |-> "service_data", class_name |-> class_name,
                           got |-> service_data(services, class_name),
                           services |-> services, odb |-> odb])
    /\ UNCHANGED <<fsVars, dirVars, now, sys_modules, storeVars, pc, items, idx, fileq, visit,
                   attrq, result, calls, used, envs, attempted, handled, visited, extVars,
                   hookVars, connVars>>

\* a caller invokes new_instance(class_name); the instances made so far are
\* those the earlier calls returned
NewInstance(class_name) ==
    /\ Len(acc) < MaxAccess
    /\ acc' = Append(acc, [op |-> "new_instance", class_name |-> class_name,
                           got |-> new_instance(services, class_name, Instances(acc)),
                           services |-> services, odb |-> odb])
    /\ UNCHANGED <<fsVars, dirVars, now, sys_modules, storeVars, pc, items, idx, fileq, visit,
                   attrq, result, calls, used, envs, attempted, handled, visited, extVars,
                   hookVars, connVars>>

\* ------------------------------------------------------------ connection

\* what every step of the connection leaves alone
ConnFrame ==
    UNCHANGED <<fsVars, dirVars, sys_modules, storeVars, pc, items, idx, fileq, visit,
                attrq, result, calls, used, envs, attempted, handled, visited, extVars,
                hookVars, accVars>>

\* start is called: line 122
StartCalled ==
    /\ conn.pc = "new"
    /\ conn' = [conn EXCEPT !.pc = "test", !.first_connection_attempt_time = now]
    /\ UNCHANGED now
    /\ ConnFrame

\* line 140: the test of the while loop; start returns when it fails
LoopTest ==
    /\ conn.pc = "test"
    /\ conn' = [conn EXCEPT !.pc = IF conn.keep_connecting THEN "call" ELSE "returned"]
    /\ UNCHANGED now
    /\ ConnFrame

\* line 144: _start is called
StartBegins ==
    /\ conn.pc = "call"
    /\ conn.starts < MaxStarts
    /\ conn' = [conn EXCEPT !.pc = "in_start", !.starts = @ + 1]
    /\ UNCHANGED now
    /\ ConnFrame

\* inside _start the subclass sets has_valid_connection
SetValid(b) ==
    /\ conn.pc = "in_start"
    /\ conn.has_valid_connection # b
    /\ conn' = [conn EXCEPT !.has_valid_connection = b]
    /\ UNCHANGED now
    /\ ConnFrame

\* inside _start the subclass, or the library it uses, calls _on_connected
OnConnected ==
    /\ conn.pc = "in_start"
    /\ conn' = on_connected(conn)
    /\ UNCHANGED now
    /\ ConnFrame

\* _start returns: lines 148-149 and 157-159
StartReturns ==
    /\ conn.pc = "in_start"
    /\ conn' = start_returned(conn, now)
    /\ UNCHANGED now
    /\ ConnFrame

\* _start raises e: lines 150-156; _keep_connecting is asked when e is one of
\* reconnect_exceptions
StartRaises(e, answer) ==
    /\ conn.pc = "in_start"
    /\ conn' = start_raised(conn, e, answer)
    /\ UNCHANGED now
    /\ ConnFrame

\* line 138: time.sleep(self.reconnect_sleep_time) is over
SleepOver ==
    /\ conn.pc = "sleep"
    /\ conn' = [conn EXCEPT !.pc = "test"]
    /\ now' = now + reconnect_sleep_time
    /\ ConnFrame

\* close (lines 92-103), called by another thread or from inside _start
Close ==
    /\ conn.closed_at = NoneVal
    /\ conn' = [conn EXCEPT !.keep_connecting = FALSE, !.closed_at = conn.starts]
    /\ UNCHANGED now
    /\ ConnFrame

\* the steps of an import whose items are source files and module names
ImportSource ==
    \/ Return
    \/ DispatchFile
    \/ DispatchModule
    \/ LoadFile
    \/ VisitDeploy
    \/ VisitDone

\* the steps of an import of items of any kind
Import ==
    \/ ImportSource
    \/ DispatchArchive
    \/ DispatchDirectory

Next ==
    \/ \E its \in Remaining(ItemNames, MaxItems) : Call(its)
    \/ Import

Spec == Init /\ [][Next]_vars

NextItems ==
    \/ \E its \in Remaining(ShapeItems, MaxShapeItems) : Call(its)
    \/ Import

SpecItems == Init /\ [][NextItems]_vars

NextEnv ==
    \/ \E its \in Remaining(EnvItems, MaxEnvItems) : Call(its)
    \/ ImportSource
    \/ \E p \in EnvFiles : EnvWrite(p)
    \/ \E p \in EnvFiles : EnvRemove(p)
    \/ \E p \in EnvFiles : EnvChmod(p)
    \/ EnvTick

SpecEnv == Init /\ [][NextEnv]_vars

NextExt ==
    \/ \E p \in Procs, archive \in Archives, rand \in Rands : ExtName(p, archive, rand)
    \/ \E p \in Procs : ExtMakedirs(p)
    \/ \E p \in Procs : ExtUnpack(p)
    \/ Tick

SpecExt == Init /\ [][NextExt]_vars

NextHook ==
    \E object_ \in {"SvcA", "AdmC"}, hook_name \in HookNames, behaviour \in HookBehaviours :
        InvokeHook(object_, hook_name, behaviour)

SpecHook == Init /\ [][NextHook]_vars

NextAcc ==
    \/ \E its \in Remaining(AccItems, MaxAccItems) : Call(its)
    \/ ImportSource
    \/ \E class_name \in AccIds : ServiceData(class_name)
    \/ \E class_name \in AccIds : NewInstance(class_name)

SpecAcc == Init /\ [][NextAcc]_vars

NextConn ==
    \/ StartCalled
    \/ LoopTest
    \/ StartBegins
    \/ \E b \in BOOLEAN : SetValid(b)
    \/ OnConnected
    \/ StartReturns
    \/ \E e \in Exceptions, answer \in {"yes", "no"} : StartRaises(e, answer)
    \/ SleepOver
    \/ Close

SpecConn == InitConn /\ [][NextConn]_vars

\* ============================================================== claims

\* the positions of the sequence q
Idx(q) == 1..Len(q)

\* the source files import_services_from_anywhere loads for an item
ItemFiles(item) ==
    IF is_archive_file(item) \/ isdir(item) THEN {"s.py"}
    ELSE IF is_python_file(item) THEN {item}
    ELSE {ModuleFile(item).file}

\* the identities of the deployable services an item exposes while its files
\* hold their first revision
ItemServices(item) ==
    UNION {{get_impl_name(Exposes(f, 1)[i]) :
              i \in {j \in Idx(Exposes(f, 1)) : should_deploy(Exposes(f, 1)[j])}} :
           f \in ItemFiles(item)}

\* the identities the durable store has registered
OdbIdentities == {odb[i].impl_name : i \in Idx(odb)}

\* the call has ended
Ended == pc = "idle" /\ calls > 0

\* C1. Partial-failure isolation: when a call whose batch holds one source
\* file that does not exist has ended, by returning or by that file's error,
\* every other item of the batch was attempted and every deployable service it
\* exposes is in the registry and in the durable store.
C1_PartialFailureIsolation ==
    (/\ Ended
     /\ result \in {"returned", "ValueError"}
     /\ Cardinality({i \in Idx(items) : items[i] = "gone.py"}) = 1)
    => \A i \in Idx(items) :
         items[i] # "gone.py" =>
           /\ i \in attempted
           /\ ItemServices(items[i]) \subseteq Keys(services)
           /\ ItemServices(items[i]) \subseteq OdbIdentities

\* C2. Lifecycle-hook failure containment: every _invoke_hook call whose hook
\* raised logged the failure and returned normally.
C2_HookFailureContained ==
    \A i \in Idx(hooks) :
      hooks[i].behaviour = "raises" =>
        hooks[i].outcome = "returned" /\ hooks[i].logged

\* the class carries the do-not-deploy marker, set by itself or by a base
Marked(t) == \E u \in DeclaresDontDeploy : issubclass(t, u)

\* the classes no import may register
Excluded == {Service, AdminService} \cup {t \in Types : Marked(t)}

\* C3. Eligibility exclusion: no descriptor of the registry and no registration
\* of the durable store is for Service, AdminService or a class carrying the
\* do-not-deploy marker; and once a call has returned, every other subclass of
\* Service its items expose is in the registry and in the durable store.
C3_EligibilityExclusion ==
    /\ \A e \in services : e.val.service_class \notin Excluded /\ e.key[2] \notin Excluded
    /\ \A i \in Idx(odb) : odb[i].impl_name[2] \notin Excluded
    /\ (Ended /\ result = "returned") =>
         \A i \in Idx(items) : \A f \in ItemFiles(items[i]) : \A j \in Idx(Exposes(f, 1)) :
           LET t == Exposes(f, 1)[j]
           IN (t \in Types \ Excluded /\ issubclass(t, Service)) =>
                /\ get_impl_name(t) \in Keys(services)
                /\ get_impl_name(t) \in OdbIdentities

\* a unit exposing Service, AdminService and marked classes beside a
\* deployable one was imported and the call returned
C3_Witness ==
    /\ Ended /\ result = "returned"
    /\ \E i \in Idx(items) : items[i] = "zato.mod"
    /\ <<"zato.mod", "AdmC">> \in Keys(services)
    /\ \E i \in Idx(odb) : odb[i].impl_name = <<"zato.mod", "AdmC">>

\* the last registration the durable store completed for the identity k
LastOdb(k) == odb[CHOOSE i \in Idx(odb) : /\ odb[i].impl_name = k
                                           /\ \A j \in Idx(odb) : odb[j].impl_name = k => j <= i]

\* the descriptor _visit_module leaves in the registry once the durable
\* store has answered the registration o
DescriptorOf(o) == WithIsActive(NewDescriptor(o.depl_info[2], o.impl_name[2]), o.is_active)

\* C4. Idempotent re-import: the registry holds exactly one descriptor per
\* identity and its identities are those visited, however often each was
\* visited, so importing a file again adds none; a complete descriptor is the
\* one of the identity's last registration, the earlier one being overwritten.
C4_IdempotentReimport ==
    /\ \A k \in Keys(services) : Cardinality({e \in services : e.key = k}) = 1
    /\ Keys(services) = {visited[i].identity : i \in Idx(visited)}
    /\ \A k \in OdbIdentities :
         "is_active" \in DictGet(services, k).keys => DictGet(services, k) = DescriptorOf(LastOdb(k))

\* a.py was imported twice, the durable store answering differently, and the
\* registry holds its service once, with the second answer
C4_Witness ==
    /\ Ended /\ result = "returned"
    /\ \E i, j \in Idx(odb) :
         /\ i < j
         /\ odb[i].impl_name = <<"a", "SvcA">> /\ odb[j].impl_name = <<"a", "SvcA">>
         /\ odb[i].item = "a.py" /\ odb[j].item = "a.py"
         /\ odb[i].is_active # odb[j].is_active
         /\ DictGet(services, <<"a", "SvcA">>).is_active = odb[j].is_active
    /\ Cardinality(services) = 1

\* C6. Internal flag derivation: every registration of the durable store
\* carries is_internal true exactly when the item it was found in begins
\* with 'zato'.
C6_InternalFlag ==
    \A i \in Idx(odb) : odb[i].is_internal = StartsWithZato(odb[i].item)

\* C7. Activation is decided by the durable store: once a call has returned,
\* the descriptor of every identity it registered holds the is_active that the
\* identity's most recent odb.add_service call returned.
C7_ActivationFromStore ==
    (Ended /\ result = "returned") =>
      \A i \in Idx(odb) :
        odb[i].call = calls =>
          LET k == odb[i].impl_name
          IN /\ k \in Keys(services)
             /\ "is_active" \in DictGet(services, k).keys
             /\ DictGet(services, k).is_active = LastOdb(k).is_active

\* a call returned after the durable store answered that a service is not
\* active, having answered earlier that it is
C7_Witness ==
    /\ Ended /\ result = "returned"
    /\ \E i, j \in Idx(odb) :
         /\ i < j /\ odb[j].call = calls
         /\ odb[i].impl_name = odb[j].impl_name
         /\ odb[i].is_active /\ ~odb[j].is_active
         /\ LastOdb(odb[j].impl_name) = odb[j]
         /\ ~DictGet(services, odb[j].impl_name).is_active

\* the deployable values the current call has visited
CallVisits == SelectSeq(visited, LAMBDA v : v.call = calls)

\* the registrations the durable store completed for the current call
CallOdb == SelectSeq(odb, LAMBDA o : o.call = calls)

\* the current call ended with an error raised while a value was visited
FailedInVisit == Ended /\ result \in {"OdbError", "OSError.getmtime"}

Finished(p) == xp[p].pc \in {"done", "failed"}

\* what identifies the decompress call the process p is in or has just left
Run(p) == <<p, xp[p].run, 0>>

\* C5, as stated. Extraction isolation: any two extractions of the same
\* archive into the same working root both succeed and return two distinct
\* directories, and neither writes into the directory of the other.
C5_ExtractionIsolation ==
    \A p, q \in Procs :
      (p # q /\ Finished(p) /\ Finished(q) /\ xp[p].archive = xp[q].archive) =>
        /\ xp[p].pc = "done" /\ xp[q].pc = "done"
        /\ xp[p].dir # xp[q].dir
        /\ <<xp[p].dir, Run(q)>> \notin wrote /\ <<xp[q].dir, Run(p)>> \notin wrote

\* C5, amended. Two extractions that both return yield two distinct
\* directories and no directory is ever written into by two extractions; an
\* extraction fails, writing nothing, exactly when the directory it
\* synthesized from the timestamp, the six hex characters and the archive's
\* base name exists already.
C5_ExtractionIsolationAmended ==
    /\ \A v, w \in wrote : v[1] = w[1] => v[2] = w[2]
    /\ \A p, q \in Procs : (p # q /\ xp[p].pc = "done" /\ xp[q].pc = "done") => xp[p].dir # xp[q].dir
    /\ \A p \in Procs : xp[p].pc = "done" => <<xp[p].dir, Run(p)>> \in wrote
    /\ \A p \in Procs :
         xp[p].pc = "failed" =>
           /\ xp[p].dir \in dirs
           /\ \A w \in wrote : w[2] # Run(p)
           /\ \/ \E w \in wrote : w[1] = xp[p].dir
              \/ \E q \in Procs \ {p} : xp[q].pc = "made" /\ xp[q].dir = xp[p].dir

\* two processes extracted the same archive at the same timestamp
C5_Witness ==
    /\ xp["p1"].pc = "done" /\ xp["p2"].pc = "done"
    /\ xp["p1"].archive = xp["p2"].archive
    /\ xp["p1"].dir.ts = xp["p2"].dir.ts
    /\ xp["p1"].dir.rand # xp["p2"].dir.rand
    /\ <<xp["p1"].dir, Run("p1")>> \in wrote /\ <<xp["p2"].dir, Run("p2")>> \in wrote

\* _visit_module is about to visit a deployable value of a module whose
\* source cannot be read
VisitsUnreadable ==
    /\ pc = "visit" /\ FromDeployable(attrq) # <<>>
    /\ ~CanRead(fs, noread, visit.file)

\* C9. Provenance read failure is not fatal: when _visit_module visits a
\* deployable value and the source of the unit cannot be read, be it because
\* the file is missing at that moment, the provenance is empty, the durable
\* store is still called and, unless the durable store itself fails, the
\* descriptor is stored with the is_active it returned; no error of the read
\* reaches the caller.
C9_ProvenanceFailureNotFatal ==
    [][(VisitsUnreadable /\ visited' # visited) =>
         /\ get_source_code_info(fs, noread, visit.file) = EmptySourceInfo
         /\ result' \in {"running", "OdbError"}
         /\ result' = "running" =>
              /\ Len(odb') = Len(odb) + 1
              /\ odb'[Len(odb')].si = EmptySourceInfo
              /\ LET k == odb'[Len(odb')].impl_name
                 IN /\ "is_active" \in DictGet(services', k).keys
                    /\ DictGet(services', k).is_active = odb'[Len(odb')].is_active]_vars

\* C10. Digest correctness: a provenance that has a digest has the SHA-256 of
\* the source bytes recorded with it, which are a revision of the file it
\* names, and the algorithm's name; two registrations of an identity whose
\* source bytes differ have different digests.
C10_DigestCorrectness ==
    /\ \A i \in Idx(odb) :
         odb[i].si.hash # NoneVal =>
           /\ odb[i].si.hash = sha256(odb[i].si.source)
           /\ odb[i].si.hash_method = "SHA-256"
           /\ \E r \in Revisions : odb[i].si.source = FileBytes(odb[i].si.path, r)
    /\ \A i, j \in Idx(odb) :
         (/\ odb[i].impl_name = odb[j].impl_name
          /\ odb[i].si.hash # NoneVal /\ odb[j].si.hash # NoneVal
          /\ odb[i].si.source # odb[j].si.source) => odb[i].si.hash # odb[j].si.hash

\* a.py was imported, changed by another process and imported again
C10_Witness ==
    \E i, j \in Idx(odb) :
      /\ i < j
      /\ odb[i].impl_name = <<"a", "SvcA">> /\ odb[j].impl_name = <<"a", "SvcA">>
      /\ odb[i].si.source = FileBytes("a.py", 1) /\ odb[j].si.source = FileBytes("a.py", 2)
      /\ odb[i].si.hash # odb[j].si.hash
      /\ odb[j].si.hash = sha256(FileBytes("a.py", 2))

\* C11. Dispatch order: the item last dispatched was handled by the path of
\* the first test it matches, in the order archive file, existing directory,
\* Python source file, module name, and by that path alone; an archive was
\* decompressed first and then imported as a directory; and the unit being
\* visited is the one that path leads to.
C11_DispatchOrder ==
    handled.path # "none" =>
      LET it == handled.item
      IN /\ handled.path = "archive" <=> is_archive_file(it)
         /\ handled.path = "directory" <=> (~is_archive_file(it) /\ isdir(it))
         /\ handled.path = "file" <=>
              (~is_archive_file(it) /\ ~isdir(it) /\ is_python_file(it))
         /\ handled.path = "module" <=>
              (~is_archive_file(it) /\ ~isdir(it) /\ ~is_python_file(it))
         /\ handled.steps =
              (IF is_archive_file(it) THEN <<"decompress", "import_services_from_directory">>
               ELSE IF isdir(it) THEN <<"import_services_from_directory">>
               ELSE IF is_python_file(it) THEN <<"import_services_from_file">>
               ELSE <<"import_services_from_module">>)
         /\ pc = "visit" =>
              IF is_archive_file(it)
              THEN /\ visit.file.ts # NoneVal /\ visit.file.base = BaseName(it)
                   /\ SynthDir(visit.file.ts, visit.file.rand, it) \in dirs
              ELSE IF isdir(it) THEN visit.file.base = it
              ELSE IF is_python_file(it) THEN visit.file = JoinBase(it)
              ELSE visit.file = ModuleFile(it)

\* a directory whose name ends in .py was imported as a directory
C11_Witness ==
    /\ handled.item = "pkg.py" /\ handled.path = "directory"
    /\ pc = "visit" /\ visit.file = filePkg
    /\ \E i \in Idx(odb) : odb[i].item = "zato_pkg.zip" /\ odb[i].call = calls

\* the errors of loading a unit: the path does not exist, the source cannot be
\* loaded, the module cannot be resolved
LoadErrors == {"ValueError", "IOError", "ImportError"}

\* import_services_from_file is about to be called on a file that cannot be
\* loaded
LoadsUnloadable ==
    /\ pc = "files" /\ fileq # <<>>
    /\ ~CanRead(fs, noread, Head(fileq).path)

\* import_services_from_module is about to be called on a module that is not
\* loaded yet and cannot be resolved
ResolvesUnresolvable ==
    /\ pc = "loop" /\ idx <= Len(items)
    /\ ~is_archive_file(items[idx]) /\ ~isdir(items[idx]) /\ ~is_python_file(items[idx])
    /\ items[idx] \notin DOMAIN sys_modules
    /\ ~CanRead(fs, noread, ModuleFile(items[idx]))

\* C12. Load errors surface and register nothing: a step that loads a unit
\* which cannot be loaded ends the import call with the load error and leaves
\* the registry and the durable store as they were; and whenever a call ends
\* with a load error, the registry and the durable store are what they were
\* when the failing item was dispatched.
C12_LoadErrorsSurface ==
    [][/\ ((LoadsUnloadable \/ ResolvesUnresolvable) /\ <<pc, fileq, handled>> # <<pc, fileq, handled>>') =>
            /\ pc' = "idle" /\ result' \in LoadErrors
            /\ services' = services /\ odb' = odb
       /\ (pc' = "idle" /\ result' \in LoadErrors) =>
            /\ result = "running" => handled'.item = items[idx]
            /\ services' = handled'.services
            /\ Len(odb') = handled'.odb]_vars

\* a call ended with the error of a source file that could not be read, after
\* an earlier call had registered the services of the same file
C12_Witness ==
    /\ Ended /\ result = "IOError"
    /\ handled.item = "a.py" /\ handled.call = 2
    /\ handled.odb = 1 /\ Len(odb) = 1
    /\ odb[1].item = "a.py"
    /\ services = handled.services

\* the eligible service types: the subclasses of Service other than Service,
\* AdminService and the classes carrying the do-not-deploy marker
Eligible == {t \in Types \ Excluded : issubclass(t, Service)}

\* the identities of the eligible types among the values an item exposes
EligibleIds(item) ==
    UNION {{get_impl_name(Exposes(f, 1)[i]) :
              i \in {j \in Idx(Exposes(f, 1)) : Exposes(f, 1)[j] \in Eligible}} :
           f \in ItemFiles(item)}

\* the item last dispatched has been imported to its end
ItemDone ==
    /\ handled.path # "none" /\ handled.call = calls
    /\ pc \in {"loop", "idle"} /\ result \in {"running", "returned"}
    /\ handled.idx = idx - 1

\* C13. Only eligible types are registered, silently: a call ends in an error
\* only for a path that does not exist, a directory that exists already or a
\* failure of the durable store, never for a value that is not a type; when an
\* item has been imported, the registry holds the identities it held before
\* and those of the item's eligible types, no other, and the durable store has
\* registered exactly these, each once and with a digest; an item with no
\* eligible type adds nothing.
C13_OnlyEligibleRegistered ==
    /\ result \in {"none", "running", "returned", "ValueError", "OSError.makedirs", "OdbError"}
    /\ result = "ValueError" => items[idx] = "gone.py"
    /\ ItemDone =>
         LET new == {i \in Idx(odb) : i > handled.odb}
         IN /\ Keys(services) = Keys(handled.services) \cup EligibleIds(handled.item)
            /\ {odb[i].impl_name : i \in new} = EligibleIds(handled.item)
            /\ Cardinality(new) = Cardinality(EligibleIds(handled.item))
            /\ \A i \in new : /\ odb[i].si.hash # NoneVal
                               /\ odb[i].si.hash = sha256(odb[i].si.source)
            /\ EligibleIds(handled.item) = {} => services = handled.services

\* a file exposing a constant, a function, a plain class, Service and one
\* eligible type was imported, and after it a file with no eligible type
C13_Witness ==
    /\ ItemDone /\ result = "returned"
    /\ items = <<"a.py", "u.py">>
    /\ handled.item = "u.py"
    /\ services = handled.services /\ Len(odb) = handled.odb
    /\ Keys(services) = {<<"a", "SvcA">>}
    /\ Len(odb) = 1 /\ odb[1].impl_name = <<"a", "SvcA">> /\ odb[1].si.hash # NoneVal

\* the accessor call the step has made
LastAcc == acc'[Len(acc')]

\* C14. Accessors: a call of service_data or new_instance leaves the registry
\* and the durable store as they are; for an identity never registered either
\* fails with KeyError; otherwise service_data returns the descriptor the
\* registry holds for it, the one written last, and new_instance returns an
\* instance of the registered class that no earlier call has returned.
C14_Accessors ==
    [][acc' # acc =>
         /\ services' = services /\ odb' = odb
         /\ LET k == LastAcc.class_name
                got == LastAcc.got
            IN IF k \notin Keys(services)
               THEN got.outcome = "KeyError"
               ELSE /\ got.outcome = "returned"
                    /\ LastAcc.op = "service_data" =>
                         /\ got.value = DictGet(services, k)
                         /\ got.value.service_class = k[2]
                         /\ "is_active" \in got.value.keys =>
                              got.value = DescriptorOf(LastOdb(k))
                    /\ LastAcc.op = "new_instance" =>
                         /\ got.value.class = DictGet(services, k).service_class
                         /\ got.value \notin Instances(acc)]_vars

\* service_data failed for an identity before its file was imported and
\* returned its descriptor afterwards
C14_Witness ==
    /\ Len(acc) = 2
    /\ acc[1].op = "service_data" /\ acc[1].class_name = <<"a", "SvcA">>
    /\ acc[1].got.outcome = "KeyError"
    /\ acc[2].op = "service_data" /\ acc[2].class_name = <<"a", "SvcA">>
    /\ acc[2].got.outcome = "returned"
    /\ acc[2].got.value = DictGet(services, <<"a", "SvcA">>)
    /\ services = acc[2].services /\ odb = acc[2].odb

\* the keys of a complete descriptor
DescriptorKeys == {"deployment_info", "service_class", "is_active"}

\* C15. Descriptor completeness: when no import call is running, whether the
\* last one returned or ended in an error, every descriptor of the registry
\* holds deployment_info, service_class and is_active.
C15_DescriptorCompleteness ==
    pc = "idle" => \A e \in services : e.val.keys = DescriptorKeys

\* the components of the path decompress synthesizes, under the working root
Components(d) == {HeadDir(d.ts, d.rand), d}

\* C16. decompress never extracts into something that already exists: when a
\* process runs os.makedirs and a component of the path it synthesized
\* exists already, the call fails and nothing is created or extracted;
\* otherwise the directory is created by this call and nothing was extracted
\* into it before.
C16_NoExtractionIntoExisting ==
    [][\A p \in Procs :
         (xp[p].pc = "named" /\ xp'[p].pc # "named") =>
           IF Components(xp[p].dir) \cap dirs # {}
           THEN xp'[p].pc = "failed" /\ dirs' = dirs /\ wrote' = wrote /\ fs' = fs
           ELSE /\ xp'[p].pc = "made"
                /\ xp[p].dir \in dirs' \ dirs
                /\ \A w \in wrote : w[1] # xp[p].dir]_vars

\* C17. Provenance matches the loaded revision: every registration made while
\* a unit is visited records, unless the source could not be read, the bytes
\* and the digest of the revision of the file that was loaded as that unit;
\* hence all registrations from one load carry the same digest.
C17_ProvenanceOfLoadedRevision ==
    [][(pc = "visit" /\ Len(odb') = Len(odb) + 1) =>
         LET si == odb'[Len(odb')].si
         IN si.hash # NoneVal =>
              /\ si.source = FileBytes(visit.file.file, visit.rev)
              /\ si.hash = sha256(FileBytes(visit.file.file, visit.rev))]_vars

\* C18. Stale compiled artifacts are removed before loading: a call of
\* import_services_from_file on a path that does not exist fails with
\* ValueError, deleting and loading nothing; on a path that exists, the
\* compiled siblings that were there have been deleted when imp.load_source
\* runs, none exists at that moment, and the unit is loaded from the source
\* as it is on disk.
C18_StaleCompiledRemoved ==
    [][(pc = "files" /\ fileq # <<>> /\ <<pc, fileq>>' # <<pc, fileq>>) =>
         LET p == Head(fileq).path
         IN IF p \notin DOMAIN fs
            THEN result' = "ValueError" /\ fs' = fs /\ visit' = NoVisit
            ELSE /\ \A q \in (Compiled(p) \cap DOMAIN fs) \ visit'.compiled :
                      q \notin DOMAIN fs' \/ fs'[q] = visit'.rev
                 /\ pc' = "visit" =>
                      /\ visit'.removed = Compiled(p) \cap DOMAIN fs
                      /\ visit'.compiled = {}
                      /\ visit'.form = "source"
                      /\ visit'.rev = fs[p]]_vars

\* a file is loaded for the second time: the compiled file the first load
\* left beside it was removed before imp.load_source ran
C18_Witness ==
    /\ pc = "visit" /\ visit.file = fileA
    /\ visit.removed = {Sibling(fileA, "c")}
    /\ visit.compiled = {} /\ visit.form = "source"
    /\ \E i \in Idx(odb) : odb[i].item = "a.py"

\* C19. Closing stops reconnection: once close has set keep_connecting to
\* False, start makes no new call of _start, the one in progress excepted;
\* and start has returned only if keep_connecting is False.
C19_ClosingStopsReconnection ==
    /\ conn.closed_at # NoneVal => conn.starts = conn.closed_at
    /\ conn.pc = "returned" => ~conn.keep_connecting

\* the step is the end of a call of _start by an exception
StartRaised == conn.pc = "in_start" /\ conn'.pc # "in_start" /\ conn'.exc # NoneStr

\* C20. Recoverable versus fatal connection errors: when _start raises one of
\* reconnect_exceptions, _keep_connecting is asked; on yes one more attempt
\* is counted and start sleeps reconnect_sleep_time before it goes back to
\* the loop test, on no the exception is raised to the caller of start;
\* an exception that is none of reconnect_exceptions is raised to the caller
\* without _keep_connecting being asked; once start has raised, it calls
\* _start no more.
C20_RecoverableVersusFatal ==
    [][/\ StartRaised =>
            IF conn'.exc \in conn.reconnect_exceptions
            THEN /\ conn'.answer \in {"yes", "no"}
                 /\ conn'.answer = "yes" =>
                      /\ conn'.pc = "sleep"
                      /\ conn'.connection_attempts = conn.connection_attempts + 1
                      /\ conn'.sleeps = conn.sleeps + 1
                 /\ conn'.answer = "no" =>
                      /\ conn'.pc = "raised"
                      /\ conn'.connection_attempts = conn.connection_attempts
                      /\ conn'.sleeps = conn.sleeps
            ELSE /\ conn'.answer = NoneStr
                 /\ conn'.pc = "raised"
                 /\ conn'.connection_attempts = conn.connection_attempts
                 /\ conn'.sleeps = conn.sleeps
       /\ conn.pc = "sleep" =>
            \/ conn'.pc = "sleep" /\ conn'.starts = conn.starts /\ now' = now
            \/ conn'.pc = "test" /\ conn'.starts = conn.starts
                                 /\ now' = now + reconnect_sleep_time
       /\ conn.pc = "raised" => (conn'.pc = "raised" /\ conn'.starts = conn.starts
                                                     /\ conn'.exc = conn.exc)]_vars

\* after a recoverable exception that _keep_connecting accepted, start slept
\* and called _start again, which raised one it refused
C20_Witness ==
    /\ conn.pc = "raised"
    /\ conn.exc \in conn.reconnect_exceptions /\ conn.answer = "no"
    /\ conn.starts = 2 /\ conn.sleeps = 1 /\ conn.connection_attempts = 2
    /\ now = reconnect_sleep_time
    /\ conn.keep_connecting

\* the step is the end of a call of _start
StartEnded == conn.pc = "in_start" /\ conn'.pc # "in_start"

\* the call of _start that ends returned
Returned == StartEnded /\ conn'.exc = NoneStr

\* the call of _start that ends raised one of reconnect_exceptions and
\* _keep_connecting answered yes
RaisedRecoverable ==
    StartEnded /\ conn'.exc \in conn.reconnect_exceptions /\ conn'.answer = "yes"

\* C21. Attempt counting: connection_attempts is at least 1; when _start
\* returns with has_valid_connection false or raises a recoverable exception,
\* connection_attempts grows by one and start sleeps reconnect_sleep_time
\* before it calls _start again; in any other step connection_attempts
\* changes only by _on_connected setting it to 1 with has_valid_connection
\* true; and first_connection_attempt_time, set when start is entered,
\* changes only when _start returns with has_valid_connection true.
C21_AttemptCounting ==
    [][/\ conn.connection_attempts >= 1 /\ conn'.connection_attempts >= 1
       /\ ((Returned /\ ~conn.has_valid_connection) \/ RaisedRecoverable) =>
            /\ conn'.connection_attempts = conn.connection_attempts + 1
            /\ conn'.pc = "sleep" /\ conn'.sleeps = conn.sleeps + 1
            /\ conn'.first_connection_attempt_time = conn.first_connection_attempt_time
       /\ (Returned /\ conn.has_valid_connection) =>
            /\ conn'.connection_attempts = conn.connection_attempts
            /\ conn'.pc = "test" /\ conn'.sleeps = conn.sleeps
            /\ conn'.first_connection_attempt_time = now
       /\ (conn.pc = "sleep" /\ conn'.pc # "sleep") =>
            /\ conn'.pc = "test" /\ now' = now + reconnect_sleep_time
            /\ conn'.starts = conn.starts
       /\ conn'.starts # conn.starts => conn.pc = "call"
       /\ conn'.connection_attempts # conn.connection_attempts =>
            \/ (Returned /\ ~conn.has_valid_connection) \/ RaisedRecoverable
            \/ /\ conn.pc = "in_start" /\ conn.has_valid_connection
               /\ conn' = [conn EXCEPT !.connection_attempts = 1]
       /\ conn'.first_connection_attempt_time # conn.first_connection_attempt_time =>
            \/ conn.pc = "new" /\ conn'.pc = "test"
            \/ Returned /\ conn.has_valid_connection]_vars

\* two attempts failed, one by returning and one by a recoverable exception,
\* the third connected: _on_connected set connection_attempts back to 1 and
\* the time of the first attempt was set anew when _start returned
C21_Witness ==
    /\ conn.pc = "test" /\ conn.starts = 3 /\ conn.sleeps = 2
    /\ conn.has_valid_connection /\ conn.connection_attempts = 1
    /\ conn.first_connection_attempt_time = 2 * reconnect_sleep_time
    /\ now = 2 * reconnect_sleep_time

====
